---- MODULE Spec2Model ----
(***************************************************************************)
(* A model of psearch/gen_db.py: the input deduplicator check_dupl_input,  *)
(* the conformer pruner remove_confs, and the orchestrator create_db that  *)
(* runs gen_data over a worker pool and writes the results to the DB.      *)
(*                                                                         *)
(* Identifiers are sequences of one-character strings, so that the         *)
(* split("#") and the decimal suffix of the renaming loop are computed.    *)
(* An optional argument (energy, rms) is <<>> when None and <<v>> when set.*)
(***************************************************************************)
EXTENDS Integers, Sequences, FiniteSets, TLC

VARIABLES
    \* check_dupl_input
    input,          \* what read_input(fname) yields: a sequence of [mol, name]
    box_mols, box_smi, box_mol_ids, box_flags,
    \* remove_confs
    mol,            \* the conformers of the molecule, in GetConformers() order
    energy, rms,    \* the two optional thresholds
    ff,             \* whether MMFFGetMoleculeForceField gives a force field
    rmsd,           \* GetConformerRMS, by unordered pair of conformer geometries
    runs,           \* how many times remove_confs has been called on mol
    prev,           \* the conformers before the latest call
    rms_list,       \* the working list of the RMS loop: (i1, i2, rms) items
    remove_ids,     \* the ids remove_confs has marked for removal, in order
    \* create_db
    pc,             \* where create_db is
    pool,           \* the Pool p: "none", "open" or "closed"
    nprocess,       \* the number of worker processes
    taken,          \* how many items of zip(mols, cids) get_mol has read
    running,        \* the entries a worker is computing gen_data for
    ready,          \* the results imap_unordered holds, in completion order:
                    \* (kind, what gen_data returned, the entry it was for)
    count,          \* i, the counter of enumerate(..., 1)
    data,           \* the result the loop body is working on
    db,             \* the DB: what write_mol, write_pharm and write_fp stored
    files,          \* the -updated*.smi files, by number, with their content
    raised,         \* the exception that left the try block, if any
    consumed,       \* the mol_name of every result the loop has taken, in order
    writes          \* the writes to the DB so far: (kind, key), in order

dedupVars == <<input, box_mols, box_smi, box_mol_ids, box_flags>>
pruneVars == <<mol, energy, rms, ff, rmsd, runs, prev, rms_list, remove_ids>>
poolVars == <<nprocess, taken, running, ready>>
dbVars == <<pc, pool, poolVars, count, data, db, files, raised, consumed, writes>>
vars == <<dedupVars, pruneVars, dbVars>>

\* ------------------------------------------------------------------ bounds
MaxLen == 3         \* entries in the input file
MaxConfs == 3       \* conformers embedded for one molecule
MaxRuns == 2        \* calls of remove_confs on one molecule
MaxMols == 3        \* entries in the input file of a create_db run
MaxFiles == 1       \* -updated*.smi files that exist before the run

\* ------------------------------------------------------------ sequences
InSeq(x, s) == \E k \in 1..Len(s) : s[k] = x

\* ------------------------------------------------------- check_dupl_input
None == <<>>

\* the structures of the input file, as written there; "OC" and "CO" are
\* two spellings of the same molecule
Mols == {"CO", "OC", "CC", "N"}

\* Chem.MolToSmiles: the canonical SMILES of a structure
MolToSmiles(m) == IF m = "OC" THEN "CO" ELSE m

\* the identifiers of the input file
Names == {<<"A">>, <<"B">>, <<"A", "#", "1">>}

Digit(d) ==
    CASE d = 0 -> "0" [] d = 1 -> "1" [] d = 2 -> "2" [] d = 3 -> "3"
      [] d = 4 -> "4" [] d = 5 -> "5" [] d = 6 -> "6" [] d = 7 -> "7"
      [] d = 8 -> "8" [] d = 9 -> "9"

\* str(suffix) of a positive integer
RECURSIVE Str(_)
Str(n) == IF n < 10 THEN <<Digit(n)>> ELSE Str(n \div 10) \o <<Digit(n % 10)>>

\* mol_name.split("#")[0]: the part before the first '#'
RECURSIVE SplitHead(_)
SplitHead(name) ==
    IF name = <<>> \/ Head(name) = "#" THEN <<>>
    ELSE <<Head(name)>> \o SplitHead(Tail(name))

\* a renaming that keeps an earlier suffix: f"{mol_name}#{suffix}"
SuffixedNoSplit(mol_name, suffix) == mol_name \o <<"#">> \o Str(suffix)

\* f"{mol_name.split('#')[0]}#{suffix}"
Suffixed(mol_name, suffix) == SplitHead(mol_name) \o <<"#">> \o Str(suffix)

\* a renaming that tries one suffix only (an if in place of the while)
NewNameOnce(mol_name, suffix, ids) ==
    IF InSeq(mol_name, ids) THEN Suffixed(mol_name, suffix) ELSE mol_name

\* a renaming branch that leaves mol_name as it came
NewNameSame(mol_name, suffix, ids) == mol_name

\* the while loop of the renaming branch: the first of mol_name,
\* base#suffix, base#(suffix+1), ... that is not in box_mol_ids
RECURSIVE NewName(_, _, _)
NewName(mol_name, suffix, ids) ==
    IF ~InSeq(mol_name, ids) THEN mol_name
    ELSE NewName(Suffixed(mol_name, suffix), suffix + 1, ids)

\* a duplicate test on the structure as written, not on its canonical SMILES
SeenRaw(m, smis) == InSeq(m, smis)

\* the test of the first branch: the canonical SMILES is already in box_smi
SeenSmi(m, smis) == InSeq(MolToSmiles(m), smis)

\* the test of the second branch: the identifier is already in box_mol_ids
SeenName(mol_name, ids) == InSeq(mol_name, ids)

\* one iteration of the for loop of check_dupl_input
CheckDuplStep ==
    /\ pc = "check_dupl_input"
    /\ Len(box_mols) < Len(input)
    /\ LET entry == input[Len(box_mols) + 1]
           m == entry.mol
           mol_name == entry.name
       IN  \/ /\ SeenSmi(m, box_smi)
              /\ box_mols' = Append(box_mols, "duplicate")
              /\ box_smi' = Append(box_smi, "duplicate")
              /\ box_mol_ids' = Append(box_mol_ids, mol_name)
              /\ box_flags' = Append(box_flags, TRUE)
           \/ /\ ~SeenSmi(m, box_smi)
              /\ SeenName(mol_name, box_mol_ids)
              /\ box_mols' = Append(box_mols, m)
              /\ box_smi' = Append(box_smi, MolToSmiles(m))
              /\ box_mol_ids' = Append(box_mol_ids, NewName(mol_name, 1, box_mol_ids))
              /\ box_flags' = Append(box_flags, TRUE)
           \/ /\ ~SeenSmi(m, box_smi)
              /\ ~SeenName(mol_name, box_mol_ids)
              /\ box_mols' = Append(box_mols, m)
              /\ box_smi' = Append(box_smi, MolToSmiles(m))
              /\ box_mol_ids' = Append(box_mol_ids, mol_name)
              /\ box_flags' = Append(box_flags, FALSE)
    /\ UNCHANGED <<input, pruneVars, dbVars>>

Entries == [mol : Mols, name : Names]

Inputs == UNION {[1..n -> Entries] : n \in 0..MaxLen}

PruneIdle ==
    /\ mol = <<>> /\ energy = None /\ rms = None /\ ff = TRUE
    /\ rmsd = <<>> /\ runs = 0 /\ prev = <<>>
    /\ rms_list = <<>> /\ remove_ids = <<>>

DedupIdle ==
    /\ input = <<>> /\ box_mols = <<>> /\ box_smi = <<>>
    /\ box_mol_ids = <<>> /\ box_flags = <<>>

NoFunction == <<>>

DbIdle ==
    /\ pool = "none" /\ nprocess = 1 /\ taken = 0 /\ running = {}
    /\ ready = <<>> /\ count = 0 /\ data = <<>> /\ raised = "none"
    /\ consumed = <<>> /\ writes = <<>>
    /\ db = [mol |-> NoFunction, pharm |-> NoFunction, fp |-> NoFunction]
    /\ files = NoFunction

InitDedup ==
    /\ input \in Inputs
    /\ box_mols = <<>> /\ box_smi = <<>> /\ box_mol_ids = <<>> /\ box_flags = <<>>
    /\ pc = "check_dupl_input"
    /\ DbIdle
    /\ PruneIdle

NextDedup == CheckDuplStep

SpecDedup == InitDedup /\ [][NextDedup]_vars

\* ----------------------------------------------------------- remove_confs
\* A conformer is [id, g, e]: its conformer id, its geometry (the index it
\* was embedded with, which no later renumbering changes) and the energy
\* ff.CalcEnergy() gives for it.
Energies == {0, 1, 2}
Cutoffs == {None, <<0>>, <<1>>}
RmsValues == {0, 1}
RmsCutoffs == {None, <<1>>}

Pairs(n) == {p \in SUBSET (1..n) : Cardinality(p) = 2}

\* the conformer of m with id cid
ConfById(m, cid) == m[CHOOSE k \in 1..Len(m) : m[k].id = cid]

\* AllChem.GetConformerRMS(mol, i1, i2)
GetConformerRMS(m, i1, i2) == rmsd[{ConfById(m, i1).g, ConfById(m, i2).g}]

\* e.append((conf.GetId(), ff.CalcEnergy())) over mol.GetConformers()
EnergyList(m) == [k \in 1..Len(m) |-> <<m[k].id, m[k].e>>]

Front(s) == SubSeq(s, 1, Len(s) - 1)

\* x put behind every item whose energy is at most its own
RECURSIVE InsertByEnergy(_, _)
InsertByEnergy(x, s) ==
    IF s = <<>> THEN <<x>>
    ELSE IF s[Len(s)][2] <= x[2] THEN Append(s, x)
    ELSE Append(InsertByEnergy(x, Front(s)), s[Len(s)])

\* sorted(e, key=lambda x: x[1]): ascending by energy, stable
RECURSIVE SortedByEnergy(_)
SortedByEnergy(e) ==
    IF e = <<>> THEN <<>>
    ELSE InsertByEnergy(e[Len(e)], SortedByEnergy(Front(e)))

Ids(items) == [k \in 1..Len(items) |-> items[k][1]]

\* a cutoff test that discards a conformer at exactly the cutoff
WithinCutoffStrict(item, lowest, cutoff) == item[2] - lowest[2] < cutoff

\* item[1] - e[0][1] <= energy
WithinCutoff(item, lowest, cutoff) == item[2] - lowest[2] <= cutoff

\* kept_ids after the energy filter: e must not be empty
KeptByEnergy(e, cutoff) ==
    IF cutoff = None THEN <<e[1][1]>>
    ELSE LET Within(item) == WithinCutoff(item, e[1], cutoff[1])
         IN  <<e[1][1]>> \o Ids(SelectSeq(Tail(e), Within))

\* an energy filter that takes a cutoff of 0 when energy is None
RemovedByEnergyDefault(e, cutoff) ==
    LET Beyond(item) ==
            ~WithinCutoff(item, e[1], IF cutoff = None THEN 0 ELSE cutoff[1])
    IN  Ids(SelectSeq(Tail(e), Beyond))

\* remove_ids after the energy filter
RemovedByEnergy(e, cutoff) ==
    IF cutoff = None THEN <<>>
    ELSE LET Beyond(item) == ~WithinCutoff(item, e[1], cutoff[1])
         IN  Ids(SelectSeq(Tail(e), Beyond))

\* itertools.combinations(s, 2), in its order
RECURSIVE Combinations2(_)
Combinations2(s) ==
    IF Len(s) < 2 THEN <<>>
    ELSE [k \in 1..(Len(s) - 1) |-> <<s[1], s[k + 1]>>] \o Combinations2(Tail(s))

\* rms_list: (i1, i2, GetConformerRMS(mol, i1, i2)) for the pairs of kept_ids
RmsList(m, kept_ids) ==
    LET c == Combinations2(kept_ids)
    IN  [k \in 1..Len(c) |-> <<c[k][1], c[k][2], GetConformerRMS(m, c[k][1], c[k][2])>>]

Violating(list, threshold) ==
    {k \in 1..Len(list) : list[k][3] < threshold}

\* rms_list without the items that mention cid
WithoutConf(list, cid) ==
    LET Other(item) == item[1] # cid /\ item[2] # cid
    IN  SelectSeq(list, Other)

\* one pass only over rms_list (an if in place of the while)
RmsRemovedOnce(list, threshold) ==
    LET v == Violating(list, threshold)
    IN  IF v = {} THEN <<>>
        ELSE <<list[CHOOSE k \in v : \A l \in v : k <= l][2]>>

\* a loop that removes the first conformer of the pair, item[0]
RECURSIVE RmsRemovedFirst(_, _)
RmsRemovedFirst(list, threshold) ==
    LET v == Violating(list, threshold)
    IN  IF v = {} THEN <<>>
        ELSE LET first == CHOOSE k \in v : \A l \in v : k <= l
                 cid == list[first][1]
             IN  <<cid>> \o RmsRemovedFirst(WithoutConf(list, cid), threshold)

\* the while loop: the ids appended to remove_ids, in order. Each round
\* takes the first item of rms_list below the threshold, removes its second
\* conformer and drops every item that mentions it.
RECURSIVE RmsRemoved(_, _)
RmsRemoved(list, threshold) ==
    LET v == Violating(list, threshold)
    IN  IF v = {} THEN <<>>
        ELSE LET first == CHOOSE k \in v : \A l \in v : k <= l
                 cid == list[first][2]
             IN  <<cid>> \o RmsRemoved(WithoutConf(list, cid), threshold)

ToSet(s) == {s[k] : k \in 1..Len(s)}

\* remove_ids when the function reaches the removal loop
RemoveIds(m, cutoff, threshold) ==
    LET e == SortedByEnergy(EnergyList(m))
        kept_ids == KeptByEnergy(e, cutoff)
    IN  ToSet(RemovedByEnergy(e, cutoff)) \cup
        (IF threshold = None THEN {}
         ELSE ToSet(RmsRemoved(RmsList(m, kept_ids), threshold[1])))

\* mol.RemoveConformer(cid) for every cid of remove_ids
RemoveConformers(m, ids) ==
    LET Stays(conf) == conf.id \notin ids
    IN  SelectSeq(m, Stays)

\* a pruner that leaves the conformer ids as they are
KeepIds(m) == m

\* conf.SetId(i) for i, conf in enumerate(mol.GetConformers())
Reindexed(m) == [k \in 1..Len(m) |-> [m[k] EXCEPT !.id = k - 1]]

\* remove_confs(mol, energy, rms): the conformers of mol when it returns.
\* has_ff is FALSE when MMFFGetMoleculeForceField returns None.
RemoveConfs(m, cutoff, threshold, has_ff) ==
    IF m # <<>> /\ ~has_ff THEN m
    ELSE IF m = <<>> THEN m
    ELSE Reindexed(RemoveConformers(m, RemoveIds(m, cutoff, threshold)))

\* AllChem.EmbedMultipleConfs: the conformers get the ids 0 .. n-1
Embedded(es) == [k \in 1..Len(es) |-> [id |-> k - 1, g |-> k, e |-> es[k]]]

\* a call of remove_confs on mol
RemoveConfsCall ==
    /\ runs < MaxRuns
    /\ prev' = mol
    /\ mol' = RemoveConfs(mol, energy, rms, ff)
    /\ runs' = runs + 1
    /\ UNCHANGED <<energy, rms, ff, rmsd, rms_list, remove_ids, dedupVars, dbVars>>

InitPrune ==
    /\ \E n \in 0..MaxConfs :
          /\ mol \in {Embedded(es) : es \in [1..n -> Energies]}
          /\ rmsd \in [Pairs(n) -> RmsValues]
    /\ energy \in Cutoffs
    /\ rms \in RmsCutoffs
    /\ ff \in BOOLEAN
    /\ runs = 0
    /\ prev = <<>>
    /\ rms_list = <<>> /\ remove_ids = <<>>
    /\ pc = "remove_confs"
    /\ DbIdle
    /\ DedupIdle

NextPrune == RemoveConfsCall

SpecPrune == InitPrune /\ [][NextPrune]_vars

\* ------------------------------------------- remove_confs, step by step
\* The RMS loop of remove_confs one iteration at a time, from the point
\* where rms_list has been built (rms is set, the energies were computable
\* and there is a conformer) to the return of the function.
RmsLoopCutoffs == {<<0>>, <<1>>, <<2>>}

\* an iteration that leaves rms_list as it is
WithoutConfKept(list, cid) == list

\* rms_list = [i for i in rms_list if i[0] != item[1] and i[1] != item[1]]
Filtered(list, cid) == WithoutConf(list, cid)

\* one iteration of "while any(item[2] < rms for item in rms_list)": the for
\* loop stops at the first item below rms
RmsRound ==
    /\ pc = "rms_loop"
    /\ Violating(rms_list, rms[1]) # {}
    /\ LET v == Violating(rms_list, rms[1])
           first == CHOOSE k \in v : \A l \in v : k <= l
           cid == rms_list[first][2]
       IN  /\ remove_ids' = Append(remove_ids, cid)
           /\ rms_list' = Filtered(rms_list, cid)
    /\ UNCHANGED <<mol, energy, rms, ff, rmsd, runs, prev, dedupVars, dbVars>>

\* the while condition is false: the marked conformers are removed, the
\* others renumbered, and remove_confs returns
RmsLoopExit ==
    /\ pc = "rms_loop"
    /\ Violating(rms_list, rms[1]) = {}
    /\ prev' = mol
    /\ mol' = Reindexed(RemoveConformers(mol, ToSet(remove_ids)))
    /\ runs' = runs + 1
    /\ pc' = "returned"
    /\ UNCHANGED <<energy, rms, ff, rmsd, rms_list, remove_ids, dedupVars,
                   pool, poolVars, count, data, db, files, raised, consumed, writes>>

InitRmsLoop ==
    /\ \E n \in 1..MaxConfs :
          /\ mol \in {Embedded(es) : es \in [1..n -> Energies]}
          /\ rmsd \in [Pairs(n) -> RmsValues]
    /\ energy \in Cutoffs
    /\ rms \in RmsLoopCutoffs
    /\ ff = TRUE
    /\ runs = 0
    /\ prev = <<>>
    /\ rms_list = RmsList(mol, KeptByEnergy(SortedByEnergy(EnergyList(mol)), energy))
    /\ remove_ids = RemovedByEnergy(SortedByEnergy(EnergyList(mol)), energy)
    /\ pc = "rms_loop"
    /\ DbIdle
    /\ DedupIdle

NextRmsLoop == RmsRound \/ RmsLoopExit

\* the interpreter runs the loop on: no iteration waits for anything
SpecRmsLoop ==
    InitRmsLoop /\ [][NextRmsLoop]_vars /\ WF_vars(RmsRound) /\ WF_vars(RmsLoopExit)

\* ---------------------------------------------------------------- gen_data
\* gen_stereo(mol, nstereo): the stereoisomers enumerated for a structure
GenStereo(m) ==
    IF MolToSmiles(m) = "CO" THEN <<"C@O", "C@@O">> ELSE <<m>>

\* gen_conf(mol, nconf, seed): the energies of the conformers embedded for
\* an isomer, in id order; none can be embedded for "CC"
GenConf(isomer) ==
    Embedded(CASE isomer = "C@O" -> <<1, 0>>
               [] isomer = "C@@O" -> <<0, 0, 2>>
               [] isomer = "N" -> <<0, 1>>
               [] OTHER -> <<>>)

\* whether MMFFGetMoleculeForceField gives a force field for the isomer:
\* it has no parameters for "N"
HasForceField(isomer) == isomer # "N"

\* utils.load_multi_conf_mol and get_feature_coords: one entry per conformer
FeatureCoords(isomer, confs) ==
    [k \in 1..Len(confs) |-> <<"coords", isomer, confs[k].g>>]

\* utils.load_multi_conf_mol and get_fp: one entry per conformer
Fingerprints(isomer, confs) ==
    [k \in 1..Len(confs) |-> <<"fp", isomer, confs[k].g>>]

\* the conformers of isomer after gen_conf and remove_confs
Pruned(isomer) == RemoveConfs(GenConf(isomer), energy, rms, HasForceField(isomer))

\* gen_data((mol, mol_name), ...): mol_name and the three dicts, each keyed by
\* the index of the isomer
GenData(m, mol_name) ==
    LET isomers == GenStereo(m)
        keys == 0..(Len(isomers) - 1)
    IN  << mol_name,
           [k \in keys |-> Pruned(isomers[k + 1])],
           [k \in keys |-> FeatureCoords(isomers[k + 1], Pruned(isomers[k + 1]))],
           [k \in keys |-> Fingerprints(isomers[k + 1], Pruned(isomers[k + 1]))] >>

\* ---------------------------------------------------------------- create_db
\* DB.write_mol, DB.write_pharm, DB.write_fp: the value stored under a key
DbWrite(store, key, value) ==
    [k \in DOMAIN store \cup {key} |-> IF k = key THEN value ELSE store[k]]

\* a generator that yields the dropped duplicates as well
ToYieldAll(tk) == (tk + 1)..Len(box_mols)

\* get_mol: the entries still to yield once tk items of zip(mols, cids) have
\* been read, the dropped duplicates skipped
ToYield(tk) == {k \in (tk + 1)..Len(box_mols) : box_mols[k] # "duplicate"}

\* the free workers take the next units get_mol yields, in its order:
\* <<the entries being computed, the number of items read>>
RECURSIVE TakeUnits(_, _)
TakeUnits(run, tk) ==
    IF Cardinality(run) < nprocess /\ ToYield(tk) # {}
    THEN LET k == CHOOSE x \in ToYield(tk) : \A y \in ToYield(tk) : x <= y
         IN  TakeUnits(run \cup {k}, k)
    ELSE <<run, tk>>

\* "if not data": a tuple is false when it is empty
Falsy(d) == d = <<>>

\* the flags of the kept entries only
SumFlagsKept ==
    Cardinality({k \in 1..Len(box_flags) :
                    box_flags[k] /\ box_mols[k] # "duplicate"})

\* sum(flags)
SumFlags == Cardinality({k \in 1..Len(box_flags) : box_flags[k]})

\* the first name, whether or not it exists
NewInFnameFirst(n, fs) == n

\* the while loop over os.path.exists: -updated.smi is number 1,
\* -updated<n>.smi is number n
RECURSIVE NewInFname(_, _)
NewInFname(n, fs) == IF n \in DOMAIN fs THEN NewInFname(n + 1, fs) ELSE n

\* a manifest that leaves out the dropped entries
ManifestKept ==
    LET NotDropped(row) == row[1] # "duplicate"
    IN  << <<"smi", "cid", "if_changed">> >> \o
        SelectSeq([k \in 1..Len(box_smi) |->
                      <<box_smi[k], box_mol_ids[k], box_flags[k]>>], NotDropped)

\* df_cid.to_csv(...): the header and one row per input entry
Manifest ==
    << <<"smi", "cid", "if_changed">> >> \o
    [k \in 1..Len(box_smi) |-> <<box_smi[k], box_mol_ids[k], box_flags[k]>>]

\* check_dupl_input has returned: p = Pool(nprocess) and imap_unordered hand
\* the first units to the workers
CreatePool ==
    /\ pc = "check_dupl_input"
    /\ Len(box_mols) = Len(input)
    /\ pool' = "open"
    /\ running' = TakeUnits({}, 0)[1]
    /\ taken' = TakeUnits({}, 0)[2]
    /\ pc' = "next"
    /\ UNCHANGED <<dedupVars, pruneVars, nprocess, ready, count, data, db, files, raised, consumed, writes>>

\* what imap_unordered is read for: once the try block is left nothing reads
\* the results any more, and the workers are followed no further
Iterating == pc \in {"next", "write_mol", "write_pharm", "write_fp"}

\* a worker returns from gen_data and takes the next unit, if there is one
WorkerReturn(k) ==
    /\ Iterating
    /\ k \in running
    /\ running' = TakeUnits(running \ {k}, taken)[1]
    /\ taken' = TakeUnits(running \ {k}, taken)[2]
    /\ ready' = Append(ready, <<"result", GenData(box_mols[k], box_mol_ids[k]), k>>)
    /\ UNCHANGED <<dedupVars, pruneVars, nprocess, pc, pool, count, data, db,
                   files, raised, consumed, writes>>

\* gen_data raises in a worker: the exception is what the pool hands over
\* for the unit, and the worker takes the next unit
WorkerRaises(k) ==
    /\ Iterating
    /\ k \in running
    /\ running' = TakeUnits(running \ {k}, taken)[1]
    /\ taken' = TakeUnits(running \ {k}, taken)[2]
    /\ ready' = Append(ready, <<"exception", <<>>, k>>)
    /\ UNCHANGED <<dedupVars, pruneVars, nprocess, pc, pool, count, data, db,
                   files, raised, consumed, writes>>

\* the for statement takes the next result: the loop body starts, or the
\* exception of the worker is raised here
NextResult ==
    /\ pc = "next"
    /\ ready # <<>>
    /\ ready' = Tail(ready)
    /\ IF Head(ready)[1] = "exception"
       THEN /\ raised' = "worker"
            /\ pc' = "finally"
            /\ UNCHANGED <<count, data, consumed, writes>>
       ELSE /\ count' = count + 1
            /\ data' = Head(ready)[2]
            /\ consumed' = Append(consumed, Head(ready)[2][1])
            /\ pc' = IF Falsy(Head(ready)[2]) THEN "next" ELSE "write_mol"
            /\ UNCHANGED raised
    /\ UNCHANGED <<dedupVars, pruneVars, nprocess, taken, running, pool, db, files,
                   writes>>

\* db.write_mol(mol_name, mol_dict)
WriteMol ==
    /\ pc = "write_mol"
    /\ db' = [db EXCEPT !.mol = DbWrite(@, data[1], data[2])]
    /\ writes' = Append(writes, <<"mol", data[1]>>)
    /\ pc' = "write_pharm"
    /\ UNCHANGED <<dedupVars, pruneVars, poolVars, pool, count, data, files, raised, consumed>>

\* db.write_pharm(mol_name, ph_dict)
WritePharm ==
    /\ pc = "write_pharm"
    /\ db' = [db EXCEPT !.pharm = DbWrite(@, data[1], data[3])]
    /\ writes' = Append(writes, <<"pharm", data[1]>>)
    /\ pc' = "write_fp"
    /\ UNCHANGED <<dedupVars, pruneVars, poolVars, pool, count, data, files, raised, consumed>>

\* db.write_fp(mol_name, fp_dict)
WriteFp ==
    /\ pc = "write_fp"
    /\ db' = [db EXCEPT !.fp = DbWrite(@, data[1], data[4])]
    /\ writes' = Append(writes, <<"fp", data[1]>>)
    /\ pc' = "next"
    /\ UNCHANGED <<dedupVars, pruneVars, poolVars, pool, count, data, files, raised, consumed>>

\* a write to the DB raises: nothing is stored, the try block is left
WriteRaises ==
    /\ pc \in {"write_mol", "write_pharm", "write_fp"}
    /\ raised' = "write"
    /\ pc' = "finally"
    /\ UNCHANGED <<dedupVars, pruneVars, poolVars, pool, count, data, db, files,
                   consumed, writes>>

\* every unit has been consumed: the for loop ends
LoopEnd ==
    /\ pc = "next"
    /\ ready = <<>> /\ running = {} /\ ToYield(taken) = {}
    /\ pc' = "manifest"
    /\ UNCHANGED <<dedupVars, pruneVars, poolVars, pool, count, data, db, files, raised, consumed, writes>>

\* "if sum(flags) > 0": the corrected input file is written under the first
\* name that does not exist
WriteManifest ==
    /\ pc = "manifest"
    /\ IF SumFlags > 0
       THEN files' = DbWrite(files, NewInFname(1, files), Manifest)
       ELSE files' = files
    /\ pc' = "finally"
    /\ UNCHANGED <<dedupVars, pruneVars, poolVars, pool, count, data, db, raised,
                   consumed, writes>>

\* df_cid.to_csv raises
ManifestRaises ==
    /\ pc = "manifest"
    /\ SumFlags > 0
    /\ raised' = "manifest"
    /\ pc' = "finally"
    /\ UNCHANGED <<dedupVars, pruneVars, poolVars, pool, count, data, db, files,
                   consumed, writes>>

\* a close that is only reached when nothing was raised
FinallyOnSuccess ==
    /\ pc = "finally"
    /\ pool' = IF raised = "none" THEN "closed" ELSE pool
    /\ pc' = "done"
    /\ UNCHANGED <<dedupVars, pruneVars, poolVars, count, data, db, files, raised, consumed, writes>>

\* finally: p.close(); create_db returns, or the exception goes on
Finally ==
    /\ pc = "finally"
    /\ pool' = "closed"
    /\ pc' = "done"
    /\ UNCHANGED <<dedupVars, pruneVars, poolVars, count, data, db, files, raised, consumed, writes>>

DbNames == {<<"A">>, <<"B">>}
DbInputs == UNION {[1..n -> [mol : Mols, name : DbNames]] : n \in 0..MaxMols}
\* min(cpu_count(), max(ncpu, 1))
CpuCounts == {1, 2}

\* the rows of a file that is there before the run
OldFile == << <<"old">> >>

\* create_db is called on a file with one of the given inputs
InitDb(inputs) ==
    /\ input \in inputs
    /\ box_mols = <<>> /\ box_smi = <<>> /\ box_mol_ids = <<>> /\ box_flags = <<>>
    /\ pc = "check_dupl_input"
    /\ pool = "none"
    /\ nprocess \in CpuCounts
    /\ taken = 0 /\ running = {} /\ ready = <<>>
    /\ count = 0 /\ data = <<>> /\ raised = "none" /\ consumed = <<>>
    /\ writes = <<>>
    /\ db = [mol |-> NoFunction, pharm |-> NoFunction, fp |-> NoFunction]
    /\ \E existing \in SUBSET (1..MaxFiles) : files = [n \in existing |-> OldFile]
    /\ mol = <<>> /\ ff = TRUE /\ runs = 0 /\ prev = <<>>
    /\ rms_list = <<>> /\ remove_ids = <<>>
    /\ energy = <<0>> /\ rms = <<1>>
    /\ rmsd = [p \in Pairs(MaxConfs) |-> 0]

Init == InitDb(DbInputs)

Next ==
    \/ CheckDuplStep
    \/ CreatePool
    \/ \E k \in running : WorkerReturn(k)
    \/ \E k \in running : WorkerRaises(k)
    \/ NextResult
    \/ WriteMol
    \/ WritePharm
    \/ WriteFp
    \/ WriteRaises
    \/ LoopEnd
    \/ WriteManifest
    \/ ManifestRaises
    \/ Finally

Spec == Init /\ [][Next]_vars

\* the main process goes on as long as it has a statement to run, and so do
\* the worker processes as long as they have a unit
Orchestrator ==
    \/ CheckDuplStep \/ CreatePool \/ NextResult
    \/ WriteMol \/ WritePharm \/ WriteFp \/ WriteRaises
    \/ LoopEnd \/ WriteManifest \/ ManifestRaises \/ Finally
Workers == \E k \in running : WorkerReturn(k) \/ WorkerRaises(k)

SpecFair == Spec /\ WF_vars(Orchestrator) /\ WF_vars(Workers)

\* create_db on an input of three molecules: the second has the structure
\* of the first, the third the identifier of the first and another structure
ScenarioInputs ==
    {in \in [1..3 -> Entries] :
        /\ MolToSmiles(in[2].mol) = MolToSmiles(in[1].mol)
        /\ in[3].name = in[1].name
        /\ MolToSmiles(in[3].mol) # MolToSmiles(in[1].mol)}

InitScenario == InitDb(ScenarioInputs)

SpecScenario == InitScenario /\ [][Next]_vars

\* --------------------------------------------------- claims, create_db
Kept == {k \in 1..Len(box_mols) : box_mols[k] # "duplicate"}
KeptIds == {box_mol_ids[k] : k \in Kept}
Stored == DOMAIN db.mol \cup DOMAIN db.pharm \cup DOMAIN db.fp
Completed == pc = "done" /\ raised = "none"

\* no conformer could be embedded for the structure, or it has no force field
NoConformers(m) == \E k \in 1..Len(GenStereo(m)) : GenConf(GenStereo(m)[k]) = <<>>
NoForceField(m) == \E k \in 1..Len(GenStereo(m)) : ~HasForceField(GenStereo(m)[k])

\* C3: a molecule for which no conformer was embedded, or whose force-field
\* energy is unavailable, has no entry in the DB: nothing is written under
\* its identifier by write_mol, write_pharm or write_fp.
C3_NoEntriesForFailed ==
    \A k \in Kept :
        (NoConformers(box_mols[k]) \/ NoForceField(box_mols[k]))
            => box_mol_ids[k] \notin Stored

\* the DB a completed run leaves: under the identifier of every kept entry,
\* what gen_data returns for that entry
ExpectedStore(field) ==
    [id \in KeptIds |->
        GenData(box_mols[CHOOSE k \in Kept : box_mol_ids[k] = id], id)[field]]

\* C4: whatever the order in which the workers' results arrive, a run that
\* completes leaves the same DB: the keys are the identifiers of the kept
\* entries and the value under each is the result of that entry.
C4_OrderIndependent ==
    Completed =>
        db = [mol |-> ExpectedStore(2), pharm |-> ExpectedStore(3),
              fp |-> ExpectedStore(4)]

\* a completed run of three units whose results were consumed in an order
\* that is not the order of submission
C4_Witness ==
    /\ Completed
    /\ Cardinality(Kept) = 3
    /\ Len(consumed) = 3
    /\ \E a, b \in Kept : a < b /\ consumed[1] = box_mol_ids[b]
                                /\ consumed[3] = box_mol_ids[a]

\* the files the run has written, and the rows of a file under its header
WrittenFiles == {n \in DOMAIN files : files[n] # OldFile}
Rows(n) == Tail(files[n])

\* what C12 says of a completed run: two molecule entries in the DB, one
\* manifest of three rows in input order, flagged false, true, true, with
\* the given identifier for the third molecule
ScenarioOutcome(third) ==
    /\ Cardinality(DOMAIN db.mol) = 2
    /\ Cardinality(WrittenFiles) = 1
    /\ \A n \in WrittenFiles :
          /\ Len(Rows(n)) = 3
          /\ Rows(n)[1] = <<MolToSmiles(input[1].mol), input[1].name, FALSE>>
          /\ Rows(n)[2] = <<"duplicate", input[2].name, TRUE>>
          /\ Rows(n)[3] = <<MolToSmiles(input[3].mol), third, TRUE>>

\* C12 as stated: for three molecules of which the second is a structural
\* duplicate of the first and the third has the identifier of the first and
\* another structure, a completed run leaves 2 molecule entries and a
\* manifest of 3 rows with if_changed false, true, true, the third
\* identifier being the first one suffixed with #1.
C12_Scenario ==
    Completed => ScenarioOutcome(input[1].name \o <<"#", "1">>)

\* the identifiers for which the suffix #1 is the one given
PlainIds ==
    /\ ~InSeq("#", input[1].name)
    /\ input[2].name # input[1].name \o <<"#", "1">>

\* C12 amended: the same, for a first identifier without '#' and a second
\* molecule that does not already carry that identifier suffixed with #1.
C12_ScenarioPlainIds ==
    (Completed /\ PlainIds) => ScenarioOutcome(input[1].name \o <<"#", "1">>)

\* a completed run on such an input, the duplicate spelled differently
C12_Witness ==
    /\ Completed /\ PlainIds
    /\ input[2].mol # input[1].mol
    /\ box_mol_ids[3] = input[1].name \o <<"#", "1">>
    /\ WrittenFiles # {}
    /\ Len(consumed) = 2

\* every unit of work has been consumed by the for loop
AllConsumed ==
    /\ running = {} /\ ready = <<>>
    /\ Len(consumed) = Cardinality(Kept)
Flagged == \E k \in 1..Len(box_flags) : box_flags[k]

\* C14: in a run of create_db that completes normally the manifest is
\* written if and only if at least one input record was flagged altered by
\* check_dupl_input, and whenever it has been written every unit of work
\* had been consumed.
C14_ManifestIffFlagged ==
    /\ Completed => (WrittenFiles # {} <=> Flagged)
    /\ WrittenFiles # {} => AllConsumed

\* a completed run of two units that wrote the manifest
C14_Witness ==
    /\ Completed /\ Flagged
    /\ WrittenFiles # {}
    /\ Len(consumed) = 2

\* C15: the manifest is never written over a file that exists: a step of
\* create_db leaves every file that exists as it is, so the name chosen is
\* one that did not exist and the files from before the run are unchanged.
C15_NoOverwrite ==
    [][\A n \in DOMAIN files : n \in DOMAIN files' /\ files'[n] = files[n]]_vars

\* the manifest was written under the second name, the first one being taken
C15_Witness ==
    /\ pc = "done"
    /\ 1 \in DOMAIN files /\ files[1] = OldFile
    /\ 2 \in WrittenFiles

\* the units of entry k that are with a worker or wait for the for loop,
\* and the results of entry k the for loop has taken
InFlight(k) ==
    Cardinality({x \in running : x = k}) +
    Cardinality({j \in 1..Len(ready) : ready[j][3] = k})
TimesConsumed(k) ==
    Cardinality({j \in 1..Len(consumed) : consumed[j] = box_mol_ids[k]})

\* no unit for a dropped entry, no entry in more than one unit, no result
\* taken twice, and no DB key written twice by the same kind of write
AtMostOnce ==
    /\ running \subseteq Kept
    /\ \A j \in 1..Len(ready) : ready[j][3] \in Kept
    /\ \A k \in Kept : InFlight(k) + TimesConsumed(k) <= 1
    /\ \A k \in Kept :
          (pc # "check_dupl_input" /\ k > taken) =>
              InFlight(k) + TimesConsumed(k) = 0
    /\ Len(consumed) <= Cardinality(Kept)
    /\ \A a, b \in 1..Len(writes) : writes[a] = writes[b] => a = b

\* C17 as stated: in every run of create_db, one that ends with an
\* exception included, each entry that was not dropped is submitted as
\* exactly one unit and its result consumed exactly once, a dropped entry
\* is never submitted, and no DB key is written twice per kind of write.
C17_ExactlyOnceEveryRun ==
    /\ AtMostOnce
    /\ pc = "done" => \A k \in Kept : TimesConsumed(k) = 1

\* C17 amended: in every run each kept entry is in at most one unit and
\* its result is consumed at most once, a dropped entry is never submitted
\* and no DB key is written twice per kind of write; in a run that completes
\* normally each kept entry is consumed exactly once.
C17_ExactlyOnceCompleted ==
    /\ AtMostOnce
    /\ Completed => \A k \in Kept : TimesConsumed(k) = 1

\* a completed run over an input with a dropped duplicate and two kept
\* entries, each written once
C17_Witness ==
    /\ Completed
    /\ Cardinality(Kept) = 2 /\ Len(box_mols) = 3
    /\ Len(writes) = 6

\* C13: once create_db has created the pool, the pool is eventually closed,
\* whether all units complete, a worker's exception comes out of the for
\* loop, or a DB write or the manifest write raises.
C13_PoolClosed == (pool = "open") ~> (pool = "closed")

\* the pool closed after each kind of exception
C13_Witness == pool = "closed" /\ raised = "worker"
C13_WitnessWrite == pool = "closed" /\ raised = "write"
C13_WitnessManifest == pool = "closed" /\ raised = "manifest"

\* C5: when create_db has ended, normally or by an exception, every
\* identifier has all three kinds of entry in the DB or none.
C5_AllOrNothing ==
    pc = "done" =>
        /\ DOMAIN db.mol = DOMAIN db.pharm
        /\ DOMAIN db.pharm = DOMAIN db.fp

\* ------------------------------------------------------ claims, pruner
Called == runs >= 1
Geoms(m) == [k \in 1..Len(m) |-> m[k].g]
GeomSet(m) == {m[k].g : k \in 1..Len(m)}
MinEnergy(m) == CHOOSE x \in {m[k].e : k \in 1..Len(m)} :
                    \A k \in 1..Len(m) : x <= m[k].e
\* the geometry of the conformer that is first in the ascending energy sort
LowestGeom(m) == ConfById(m, SortedByEnergy(EnergyList(m))[1][1]).g

\* C2: after a call with rms set (energy set or not) on an ensemble whose
\* energies are computable, no two surviving conformers have an RMS below
\* rms.
C2_NoClosePair ==
    (Called /\ rms # None /\ ff) =>
        \A i, j \in 1..Len(mol) :
            i < j => ~(rmsd[{mol[i].g, mol[j].g}] < rms[1])

\* C2, as far as the code goes: the same with energy set
C2_NoClosePairEnergySet ==
    (Called /\ rms # None /\ energy # None /\ ff) =>
        \A i, j \in 1..Len(mol) :
            i < j => ~(rmsd[{mol[i].g, mol[j].g}] < rms[1])

\* C8 as stated: a call with energy = 0 on a non-empty ensemble with
\* computable energies leaves the single lowest-energy conformer, ties
\* included.
C8_SingleSurvivor ==
    (Called /\ energy = <<0>> /\ ff /\ prev # <<>>) =>
        Geoms(mol) = <<LowestGeom(prev)>>

\* C8 amended: a call with energy = 0 on a non-empty ensemble with
\* computable energies keeps only conformers whose energy equals the
\* minimum, the first of the stable energy sort among them, and with rms
\* unset it keeps every conformer whose energy equals the minimum.
C8_MinimumSurvivors ==
    (Called /\ energy = <<0>> /\ ff /\ prev # <<>>) =>
        /\ \A k \in 1..Len(mol) : mol[k].e = MinEnergy(prev)
        /\ LowestGeom(prev) \in GeomSet(mol)
        /\ rms = None =>
              GeomSet(mol) = {prev[k].g : k \in {l \in 1..Len(prev) :
                                                  prev[l].e = MinEnergy(prev)}}

\* energy = 0, rms unset, a tie at the minimum and a conformer above it:
\* the tied conformers stay, the other one goes
C8_Witness ==
    /\ runs = 1 /\ energy = <<0>> /\ rms = None /\ ff
    /\ Len(prev) = 3 /\ Len(mol) = 2
    /\ mol[1].e = mol[2].e

\* C9: a second call with the same energy and rms on the ensemble the first
\* call left removes no conformer.
C9_Idempotent == runs >= 2 => Geoms(mol) = Geoms(prev)

\* a second call after a first one that removed conformers, with energy and
\* rms both set, on an ensemble of two or more
C9_Witness ==
    /\ runs = 2 /\ energy # None /\ rms # None /\ ff
    /\ Len(prev) >= 2
    /\ \E k \in 1..Len(prev) : prev[k].g # k

\* C10: when remove_confs has returned, the ids of the conformers are
\* 0 .. k-1, each used once (in GetConformers() order).
C10_Contiguous == Called => \A k \in 1..Len(mol) : mol[k].id = k - 1

\* a call that removed a conformer in front of a surviving one, which was
\* therefore renumbered
C10_Witness ==
    /\ runs = 1 /\ Len(mol) >= 2
    /\ \E k \in 1..Len(mol) : mol[k].g # k /\ mol[k].id = k - 1

\* C11: a call with energy unset and rms unset removes no conformer: the
\* conformers after the call are the conformers that were embedded.
C11_NoOp ==
    (Called /\ energy = None /\ rms = None) => Geoms(mol) = Geoms(prev)

\* such a call on three conformers of different energies, two of them with
\* RMS 0, energies computable
C11_Witness ==
    /\ runs = 1 /\ energy = None /\ rms = None /\ ff
    /\ Len(prev) = 3 /\ Len(mol) = 3
    /\ \A k, l \in 1..3 : k # l => prev[k].e # prev[l].e
    /\ \E p \in DOMAIN rmsd : rmsd[p] = 0

\* C16: a call with energy set and rms unset on a non-empty ensemble with
\* computable energies keeps exactly the lowest-energy conformer and the
\* conformers whose energy is at most energy above the minimum.
C16_EnergyFilter ==
    (Called /\ energy # None /\ rms = None /\ ff /\ prev # <<>>) =>
        GeomSet(mol) =
            {LowestGeom(prev)} \cup
            {prev[k].g : k \in {l \in 1..Len(prev) :
                                  prev[l].e - MinEnergy(prev) <= energy[1]}}

\* energy = 1 on energies at 0, 1 and 2 above the minimum: the conformer at
\* exactly the cutoff stays, the one beyond it goes
C16_Witness ==
    /\ runs = 1 /\ energy = <<1>> /\ rms = None /\ ff
    /\ Len(prev) = 3 /\ Len(mol) = 2
    /\ {prev[k].e : k \in 1..3} = {0, 1, 2}
    /\ {mol[k].e : k \in 1..2} = {0, 1}

\* C20: on a non-empty ensemble with computable energies the conformer that
\* is first in the ascending energy sort survives the call, whatever energy
\* and rms are, so the ensemble is not pruned to empty.
C20_LowestSurvives ==
    (Called /\ ff /\ prev # <<>>) =>
        /\ LowestGeom(prev) \in GeomSet(mol)
        /\ mol # <<>>

\* energy and rms set, the lowest conformer is not the first embedded, and
\* the call removed every other conformer
C20_Witness ==
    /\ runs = 1 /\ energy # None /\ rms # None /\ ff
    /\ Len(prev) = 3 /\ Len(mol) = 1
    /\ LowestGeom(prev) # 1
    /\ mol[1].g = LowestGeom(prev)

\* C19: every iteration of the greedy RMS loop removes at least one item
\* from rms_list, and the loop ends: a state in which no remaining pair is
\* below rms is reached and remove_confs returns.
C19_LoopTerminates ==
    /\ [][remove_ids' # remove_ids => Len(rms_list') < Len(rms_list)]_vars
    /\ <>(pc = "returned" /\ Violating(rms_list, rms[1]) = {})

\* a returned call whose loop ran twice: three conformers of one energy, of
\* which one is left
C19_Witness ==
    /\ pc = "returned"
    /\ Len(prev) = 3 /\ Len(mol) = 1
    /\ \A k \in 1..3 : prev[k].e = prev[1].e
    /\ Len(remove_ids) = 2
    /\ rms_list = <<>>

\* ------------------------------------------------------ claims, dedup
Processed == 1..Len(box_mols)
Dropped(i) == box_mols[i] = "duplicate"
Returned == Len(box_mols) = Len(input)
Canon(i) == MolToSmiles(input[i].mol)

\* C1: among the entries that were not dropped as structural duplicates, the
\* output identifiers are pairwise distinct (after every iteration, hence
\* also when check_dupl_input returns).
C1_UniqueIds ==
    \A i, j \in Processed :
        (i # j /\ ~Dropped(i) /\ ~Dropped(j)) => box_mol_ids[i] # box_mol_ids[j]

\* a returned run in which two kept entries came in with the same identifier,
\* one of them after a dropped entry that carried that identifier too
C1_Witness ==
    /\ Returned
    /\ \E i, j, k \in Processed :
          /\ i < j /\ j < k
          /\ ~Dropped(i) /\ Dropped(j) /\ ~Dropped(k)
          /\ input[i].name = input[k].name
          /\ input[j].name = input[k].name
          /\ box_mol_ids[i] # box_mol_ids[k]

\* the input of C6: one identifier without '#', pairwise distinct structures
SameNameDistinct ==
    /\ Len(box_mols) >= 1
    /\ ~InSeq("#", input[1].name)
    /\ \A i \in Processed : input[i].name = input[1].name
    /\ \A i, j \in Processed : i # j => Canon(i) # Canon(j)

\* C6: k entries with the same identifier A (no '#') and pairwise distinct
\* canonical structures get the identifiers A, A#1, ..., A#(k-1) in input
\* order.
C6_Suffixes ==
    SameNameDistinct =>
        \A i \in Processed :
            box_mol_ids[i] = IF i = 1 THEN input[1].name
                             ELSE input[1].name \o <<"#">> \o Str(i - 1)

\* [A, A, A] with three structures has given [A, A#1, A#2]
C6_Witness ==
    /\ Returned /\ SameNameDistinct
    /\ box_mol_ids = << <<"A">>, <<"A", "#", "1">>, <<"A", "#", "2">> >>

\* C7: of two entries with the same canonical structure the later one is
\* marked as a dropped duplicate, and the first occurrence of a canonical
\* structure is never dropped.
C7_FirstKept ==
    /\ \A i, j \in Processed : (i < j /\ Canon(i) = Canon(j)) => Dropped(j)
    /\ \A j \in Processed :
          (\A i \in Processed : i < j => Canon(i) # Canon(j)) => ~Dropped(j)

\* two spellings of one structure: the first is kept, the second dropped
C7_Witness ==
    /\ Returned
    /\ \E i, j \in Processed :
          /\ i < j /\ Canon(i) = Canon(j) /\ input[i].mol # input[j].mol
          /\ ~Dropped(i) /\ Dropped(j)

\* C18: the four sequences have one length (the length of the input once
\* check_dupl_input returns) and position i describes input entry i; the
\* flag of an entry is true exactly when the entry was dropped as a
\* structural duplicate or its identifier differs from the one it came with,
\* and an entry with flag false keeps its structure and identifier.
C18_FlagsMarkAltered ==
    /\ Len(box_smi) = Len(box_mols)
    /\ Len(box_mol_ids) = Len(box_mols)
    /\ Len(box_flags) = Len(box_mols)
    /\ Len(box_mols) <= Len(input)
    /\ \A k \in Processed :
          /\ box_flags[k] <=> (Dropped(k) \/ box_mol_ids[k] # input[k].name)
          /\ ~Dropped(k) => /\ box_mols[k] = input[k].mol
                            /\ box_smi[k] = Canon(k)
          /\ ~box_flags[k] => /\ box_mols[k] = input[k].mol
                              /\ box_mol_ids[k] = input[k].name

\* a returned run with an unchanged entry, a dropped one and a renamed one
C18_Witness ==
    /\ Returned
    /\ \E a, b, c \in Processed :
          /\ ~box_flags[a]
          /\ box_flags[b] /\ Dropped(b) /\ box_mol_ids[b] = input[b].name
          /\ box_flags[c] /\ ~Dropped(c) /\ box_mol_ids[c] # input[c].name

====
